---- MODULE Spec2Model ----
(***************************************************************************)
(* The purchase / credit ledger core of the AI agent marketplace:          *)
(* purchaseAgent, buyCredits, withdrawCredits and updateAIAgent running as *)
(* concurrent                                                              *)
(* requests against one PostgreSQL store.  Every `await`ed statement of a  *)
(* handler is one step.  Statements issued through db.transaction(...)     *)
(* run in a READ COMMITTED transaction (no isolation level is passed at    *)
(* the call sites): reads see the committed rows, an UPDATE takes the row  *)
(* lock until commit or rollback and waits while another transaction holds *)
(* it, and the writes become visible together at commit.  Statements       *)
(* issued on `db` directly are committed one by one.                       *)
(* Money is stored as numeric(10,2); the model counts it in cents.         *)
(***************************************************************************)
EXTENDS Integers, FiniteSets, Sequences, TLC

\* ---------------------------------------------------------------- bounds
MaxCalls == 2       \* handler invocations (requests) in one behaviour
MaxFaults == 1      \* storage faults injected in one behaviour
FloatUnit == 1000   \* resolution of a JS number: FloatUnit steps per cent

\* Each request invokes one handler once; requests may overlap in any way.
Procs == 1..MaxCalls

\* ------------------------------------------------------------- fixtures
\* Users 1, 2 and 4 and agents 1, 2 and 5 exist; id 3 names no row; agent 4
\* exists but has been deactivated.
\* The inputs the handlers are invoked with (amounts in cents).
PurchaseInputs ==
  {[op |-> "purchaseAgent", buyer_id |-> b, agent_id |-> a] :
     <<b, a>> \in {<<1, 1>>, <<2, 2>>, <<1, 2>>, <<2, 1>>, <<3, 1>>, <<1, 3>>,
                    <<1, 4>>}}
\* Sales of one creator (user 2): two buyers of agent 1 and a buyer of the
\* cheaper agent 5.
SalesInputs ==
  {[op |-> "purchaseAgent", buyer_id |-> b, agent_id |-> a] :
     <<b, a>> \in {<<1, 1>>, <<4, 1>>, <<4, 5>>}}
BuyInputs ==
  {[op |-> "buyCredits", user_id |-> t[1], amount |-> t[2], payment_method |-> t[3]] :
     t \in {<<1, 2500, "credit_card">>, <<1, 7500, "credit_card">>,
            <<3, 2500, "credit_card">>, <<1, 0, "credit_card">>,
            <<1, 2500, "">>, <<1, 2500, " ">>}}
WithdrawInputs ==
  {[op |-> "withdrawCredits", user_id |-> t[1], amount |-> t[2]] :
     t \in {<<1, 2999>>, <<1, 10000>>, <<3, 2999>>}}
\* updateAIAgent: a new price for agent 1, agent 1 deactivated, an unknown id
\* (has_price / has_is_active: the optional field is present in the input)
UpdateInputs ==
  {[op |-> "updateAIAgent", id |-> t[1], has_price |-> t[2], price |-> t[3],
    has_is_active |-> t[4], is_active |-> t[5]] :
     t \in {<<1, TRUE, 1999, FALSE, TRUE>>, <<1, FALSE, 0, TRUE, FALSE>>,
            <<3, TRUE, 1999, FALSE, TRUE>>}}

NoInput == [op |-> "none"]
NoLocal == [set |-> FALSE]
NoResult == [kind |-> "none", id |-> 0]
NullResult == [kind |-> "null", id |-> 0]
ErrorResult == [kind |-> "error", id |-> 0]
RecordResult(i) == [kind |-> "record", id |-> i]
\* the write set of a transaction that has written nothing
EmptyTx == [users |-> <<>>, agents |-> <<>>, purchases |-> {}, txns |-> {}]

VARIABLES
  users,               \* usersTable: id -> [user_type, credit_balance, total_earned]
  agents,              \* aiAgentsTable: id -> [creator_id, price, is_active, total_sales]
  purchases,           \* purchasesTable: set of rows
  creditTransactions,  \* creditTransactionsTable: set of rows
  nextPurchaseId,      \* serial of purchases.id
  nextTxnId,           \* serial of credit_transactions.id
  pc,                  \* position of each request in its handler
  input,               \* the handler's input
  local,               \* the handler's local constants
  tx,                  \* uncommitted writes of the request's transaction
  result,              \* what the handler returned / threw
  faults,              \* storage faults so far
  hadFault,            \* history: a statement of this call failed
  startHad,            \* history: a Purchase for (buyer, agent) was committed when the call began
  wrote                \* history: a step of this call changed the committed rows

db == <<users, agents, purchases, creditTransactions>>
vars == <<users, agents, purchases, creditTransactions, nextPurchaseId, nextTxnId,
          pc, input, local, tx, result, faults, hadFault, startHad, wrote>>

\* ------------------------------------------------- numbers at the boundary
\* parseFloat of a numeric(10,2) text: the double nearest to it.
parseFloat(n) == n * FloatUnit
\* The doubles a floating-point sum or difference may round to.
FloatResults(x) == {x - 1, x, x + 1}
\* number.toString() stored into a numeric(10,2) column: rounded to the cent,
\* halves away from zero.
\* variant: the digits after the second decimal are cut off
ToNumeric_Truncated(f) ==
  IF f >= 0 THEN f \div FloatUnit
  ELSE 0 - ((0 - f) \div FloatUnit)
ToNumeric(f) ==
  IF f >= 0 THEN (2 * f + FloatUnit) \div (2 * FloatUnit)
  ELSE 0 - ((2 * (0 - f) + FloatUnit) \div (2 * FloatUnit))

\* ------------------------------------------------------------- the store
\* Row locks: a row updated by an open transaction.
UserLockedByOther(p, u) == \E q \in Procs \ {p} : u \in DOMAIN tx[q].users
AgentLockedByOther(p, a) == \E q \in Procs \ {p} : a \in DOMAIN tx[q].agents

\* tx.update(usersTable).set(fields).where(id = u) inside p's transaction
TxUpdateUser(p, u, row) ==
  [tx EXCEPT ![p].users = (u :> row) @@ tx[p].users]
TxUpdateAgent(p, a, row) ==
  [tx EXCEPT ![p].agents = (a :> row) @@ tx[p].agents]

\* variant: the duplicate check looks at no row
ExistingPurchases_None(b, a) == {}
ExistingPurchases(b, a) == {r \in purchases : r.buyer_id = b /\ r.agent_id = a}

\* COMMIT: the transaction's writes become the committed rows.
CommitUsers(p) == [u \in DOMAIN users |->
                     IF u \in DOMAIN tx[p].users THEN tx[p].users[u] ELSE users[u]]
CommitAgents(p) == [a \in DOMAIN agents |->
                      IF a \in DOMAIN tx[p].agents THEN tx[p].agents[a] ELSE agents[a]]
\* variant: the committed purchases are replaced by the transaction's
Commit_ReplacesPurchases(p) ==
  /\ users' = CommitUsers(p)
  /\ agents' = CommitAgents(p)
  /\ purchases' = IF tx[p].purchases = {} THEN purchases ELSE tx[p].purchases
  /\ creditTransactions' = creditTransactions \cup tx[p].txns
Commit(p) ==
  /\ users' = CommitUsers(p)
  /\ agents' = CommitAgents(p)
  /\ purchases' = purchases \cup tx[p].purchases
  /\ creditTransactions' = creditTransactions \cup tx[p].txns

\* variant: no transaction, the statements executed so far stay in effect
Rollback_KeepsWrites(p) ==
  /\ Commit(p)
\* ROLLBACK: the transaction's writes are dropped.
Rollback(p) ==
  /\ UNCHANGED db

\* The request ends: the handler returns r (or throws, r = ErrorResult).
Finish(p, r) ==
  /\ pc' = [pc EXCEPT ![p] = "done"]
  /\ result' = [result EXCEPT ![p] = r]
  /\ local' = [local EXCEPT ![p] = NoLocal]
  /\ tx' = [tx EXCEPT ![p] = EmptyTx]

Goto(p, l) == pc' = [pc EXCEPT ![p] = l]

\* history only: whether the step of request p changed the committed rows
Track(p) == wrote' = [wrote EXCEPT ![p] = @ \/ db' # db]

\* ------------------------------------------------------------------ Init
\* The rows present before the first request: a buyer holding 100.00, a second
\* user holding 29.99, one active agent of each, priced 29.99, an agent that
\* is not active, another buyer holding 50.00 and a second active agent of
\* user 2, priced 19.99.
InitUsers ==
  (1 :> [user_type |-> "buyer", credit_balance |-> 10000, total_earned |-> 0]) @@
  (2 :> [user_type |-> "creator", credit_balance |-> 2999, total_earned |-> 0]) @@
  (4 :> [user_type |-> "buyer", credit_balance |-> 5000, total_earned |-> 0])
InitAgents ==
  (1 :> [creator_id |-> 2, price |-> 2999, is_active |-> TRUE, total_sales |-> 0]) @@
  (2 :> [creator_id |-> 1, price |-> 2999, is_active |-> TRUE, total_sales |-> 0]) @@
  (4 :> [creator_id |-> 2, price |-> 2999, is_active |-> FALSE, total_sales |-> 0]) @@
  (5 :> [creator_id |-> 2, price |-> 1999, is_active |-> TRUE, total_sales |-> 0])

Init ==
  /\ users = InitUsers
  /\ agents = InitAgents
  /\ purchases = {}
  /\ creditTransactions = {}
  /\ nextPurchaseId = 1
  /\ nextTxnId = 1
  /\ pc = [p \in Procs |-> "idle"]
  /\ input = [p \in Procs |-> NoInput]
  /\ local = [p \in Procs |-> NoLocal]
  /\ tx = [p \in Procs |-> EmptyTx]
  /\ result = [p \in Procs |-> NoResult]
  /\ faults = 0
  /\ hadFault = [p \in Procs |-> FALSE]
  /\ startHad = [p \in Procs |-> FALSE]
  /\ wrote = [p \in Procs |-> FALSE]

\* ------------------------------------------------------------ invocations
\* Requests are numbered in the order in which they arrive.
CanCall(p) ==
  /\ pc[p] = "idle"
  /\ \A q \in Procs : q < p => pc[q] # "idle"

Begin(p, in, l) ==
  /\ CanCall(p)
  /\ input' = [input EXCEPT ![p] = in]
  /\ pc' = [pc EXCEPT ![p] = l]
  /\ result' = [result EXCEPT ![p] = NoResult]
  /\ local' = [local EXCEPT ![p] = NoLocal]
  /\ hadFault' = [hadFault EXCEPT ![p] = FALSE]
  /\ UNCHANGED <<db, nextPurchaseId, nextTxnId, tx, faults>>

CallPurchaseAgent(p) ==
  \E in \in PurchaseInputs :
    /\ Begin(p, in, "pa_agent")
    /\ startHad' = [startHad EXCEPT ![p] =
                      \E r \in purchases : r.buyer_id = in.buyer_id /\ r.agent_id = in.agent_id]
    /\ Track(p)

\* purchaseAgent invoked for one of the sales of user 2
CallSale(p) ==
  \E in \in SalesInputs :
    /\ Begin(p, in, "pa_agent")
    /\ startHad' = [startHad EXCEPT ![p] =
                      \E r \in purchases : r.buyer_id = in.buyer_id /\ r.agent_id = in.agent_id]
    /\ Track(p)

CallBuyCredits(p) ==
  \E in \in BuyInputs :
    /\ Begin(p, in, "bc_user")
    /\ startHad' = [startHad EXCEPT ![p] = FALSE]
    /\ Track(p)

CallWithdrawCredits(p) ==
  \E in \in WithdrawInputs :
    /\ Begin(p, in, "wd_user")
    /\ startHad' = [startHad EXCEPT ![p] = FALSE]
    /\ Track(p)

CallUpdateAIAgent(p) ==
  \E in \in UpdateInputs :
    /\ Begin(p, in, "ua_agent")
    /\ startHad' = [startHad EXCEPT ![p] = FALSE]
    /\ Track(p)

\* A statement of p's handler fails in the store.
FaultHere(p) ==
  /\ faults < MaxFaults
  /\ faults' = faults + 1
  /\ hadFault' = [hadFault EXCEPT ![p] = TRUE]

\* The step ends the request with r without touching the store.
ReturnEarly(p, r) ==
  /\ Finish(p, r)
  /\ UNCHANGED <<db, nextPurchaseId, nextTxnId, input, faults, hadFault, startHad>>

\* The step keeps the request running at label l with locals loc.
Continue(p, l, loc) ==
  /\ Goto(p, l)
  /\ local' = [local EXCEPT ![p] = loc]

\* ---------------------------------------------------------- purchaseAgent
\* 1. the agent exists and is active
\* variant: is_active is not part of the condition
ActiveAgents_Any(a) == {i \in DOMAIN agents : i = a}
ActiveAgents(a) == {i \in DOMAIN agents : i = a /\ agents[i].is_active}

PA_SelectAgent(p) ==
  /\ pc[p] = "pa_agent"
  /\ IF ActiveAgents(input[p].agent_id) = {}
     THEN ReturnEarly(p, NullResult)
     ELSE LET agent == [id |-> input[p].agent_id] @@ agents[input[p].agent_id] IN
          /\ Continue(p, "pa_buyer",
                      [set |-> TRUE, agent |-> agent, agentPrice |-> parseFloat(agent.price)])
          /\ UNCHANGED <<db, nextPurchaseId, nextTxnId, input, tx, result, faults,
                         hadFault, startHad>>
  /\ Track(p)

\* 3. buyers may not purchase their own agents
\* variant: the buyer is compared with the agent's id, not with its creator
IsOwnAgent_ById(agent, buyer_id) == agent.id = buyer_id
IsOwnAgent(agent, buyer_id) == agent.creator_id = buyer_id

\* 2. the buyer exists; 3. no self purchase
PA_SelectBuyer(p) ==
  /\ pc[p] = "pa_buyer"
  /\ IF input[p].buyer_id \notin DOMAIN users
     THEN ReturnEarly(p, NullResult)
     ELSE IF IsOwnAgent(local[p].agent, input[p].buyer_id)
     THEN ReturnEarly(p, NullResult)
     ELSE /\ Continue(p, "pa_existing",
                      local[p] @@
                      [buyerBalance |-> parseFloat(users[input[p].buyer_id].credit_balance)])
          /\ UNCHANGED <<db, nextPurchaseId, nextTxnId, input, tx, result, faults,
                         hadFault, startHad>>
  /\ Track(p)

\* 5. the buyer's credits do not cover the price
\* variant: the balance is not compared with the price
InsufficientCredits_Unchecked(buyerBalance, agentPrice) == FALSE
\* variant: a balance equal to the price is refused as well
InsufficientCredits_OrEqual(buyerBalance, agentPrice) == buyerBalance <= agentPrice
InsufficientCredits(buyerBalance, agentPrice) == buyerBalance < agentPrice

\* 4. duplicate purchase; 5. sufficient credits
PA_SelectExisting(p) ==
  /\ pc[p] = "pa_existing"
  /\ IF ExistingPurchases(input[p].buyer_id, input[p].agent_id) # {}
     THEN ReturnEarly(p, NullResult)
     ELSE IF InsufficientCredits(local[p].buyerBalance, local[p].agentPrice)
     THEN ReturnEarly(p, NullResult)
     ELSE /\ Goto(p, "pa_creator")
          /\ UNCHANGED <<db, nextPurchaseId, nextTxnId, input, local, tx, result,
                         faults, hadFault, startHad>>
  /\ Track(p)

\* 6. the creator's row
PA_SelectCreator(p) ==
  /\ pc[p] = "pa_creator"
  /\ IF local[p].agent.creator_id \notin DOMAIN users
     THEN ReturnEarly(p, NullResult)
     ELSE LET creator == users[local[p].agent.creator_id] IN
          /\ Continue(p, "pa_upd_buyer",
                      local[p] @@
                      [creatorBalance |-> parseFloat(creator.credit_balance),
                       creatorTotalEarned |-> parseFloat(creator.total_earned)])
          /\ UNCHANGED <<db, nextPurchaseId, nextTxnId, input, tx, result, faults,
                         hadFault, startHad>>
  /\ Track(p)

\* the values the purchase writes
BuyerUpdate(row, newBalance) == [row EXCEPT !.credit_balance = ToNumeric(newBalance)]
\* variant: the creator is paid but total_earned is left as it was
CreatorUpdate_BalanceOnly(row, newBalance, newTotalEarned) ==
  [row EXCEPT !.credit_balance = ToNumeric(newBalance)]
CreatorUpdate(row, newBalance, newTotalEarned) ==
  [row EXCEPT !.credit_balance = ToNumeric(newBalance),
              !.total_earned = ToNumeric(newTotalEarned)]
AgentUpdate(row, total_sales) == [row EXCEPT !.total_sales = total_sales + 1]
PurchaseRow(id, buyer_id, agent, agentPrice) ==
  [id |-> id, buyer_id |-> buyer_id, agent_id |-> agent.id,
   creator_id |-> agent.creator_id, price_paid |-> ToNumeric(agentPrice)]
\* variant: the debit is logged with a positive amount
BuyerTxnRow_Unsigned(id, buyer_id, agentPrice, purchase_id) ==
  [id |-> id, user_id |-> buyer_id, transaction_type |-> "purchase",
   amount |-> ToNumeric(agentPrice), reference_id |-> purchase_id]
BuyerTxnRow(id, buyer_id, agentPrice, purchase_id) ==
  [id |-> id, user_id |-> buyer_id, transaction_type |-> "purchase",
   amount |-> ToNumeric(0 - agentPrice), reference_id |-> purchase_id]
CreatorTxnRow(id, creator_id, agentPrice, purchase_id) ==
  [id |-> id, user_id |-> creator_id, transaction_type |-> "sale_earning",
   amount |-> ToNumeric(agentPrice), reference_id |-> purchase_id]

\* 7. UPDATE users SET credit_balance = buyerBalance - agentPrice WHERE id = buyer
PA_UpdateBuyer(p) ==
  /\ pc[p] = "pa_upd_buyer"
  /\ ~UserLockedByOther(p, input[p].buyer_id)
  /\ \E f \in FloatResults(local[p].buyerBalance - local[p].agentPrice) :
       tx' = TxUpdateUser(p, input[p].buyer_id, BuyerUpdate(users[input[p].buyer_id], f))
  /\ Goto(p, "pa_upd_creator")
  /\ UNCHANGED <<db, nextPurchaseId, nextTxnId, input, local, result, faults,
                 hadFault, startHad>>
  /\ Track(p)

\* 8. UPDATE users SET credit_balance = creatorBalance + agentPrice,
\*    total_earned = creatorTotalEarned + agentPrice WHERE id = creator
PA_UpdateCreator(p) ==
  /\ pc[p] = "pa_upd_creator"
  /\ ~UserLockedByOther(p, local[p].agent.creator_id)
  /\ \E f \in FloatResults(local[p].creatorBalance + local[p].agentPrice),
        g \in FloatResults(local[p].creatorTotalEarned + local[p].agentPrice) :
       tx' = TxUpdateUser(p, local[p].agent.creator_id,
               CreatorUpdate(users[local[p].agent.creator_id], f, g))
  /\ Goto(p, "pa_upd_agent")
  /\ UNCHANGED <<db, nextPurchaseId, nextTxnId, input, local, result, faults,
                 hadFault, startHad>>
  /\ Track(p)

\* 9. UPDATE ai_agents SET total_sales = agent.total_sales + 1 WHERE id = agent
PA_UpdateAgent(p) ==
  /\ pc[p] = "pa_upd_agent"
  /\ ~AgentLockedByOther(p, input[p].agent_id)
  /\ tx' = TxUpdateAgent(p, input[p].agent_id,
             AgentUpdate(agents[input[p].agent_id], local[p].agent.total_sales))
  /\ Goto(p, "pa_ins_purchase")
  /\ UNCHANGED <<db, nextPurchaseId, nextTxnId, input, local, result, faults,
                 hadFault, startHad>>
  /\ Track(p)

\* 10. INSERT INTO purchases ... RETURNING
PA_InsertPurchase(p) ==
  /\ pc[p] = "pa_ins_purchase"
  /\ tx' = [tx EXCEPT ![p].purchases = @ \cup
             {PurchaseRow(nextPurchaseId, input[p].buyer_id, local[p].agent,
                          local[p].agentPrice)}]
  /\ nextPurchaseId' = nextPurchaseId + 1
  /\ Continue(p, "pa_ins_buyer_txn", local[p] @@ [purchase_id |-> nextPurchaseId])
  /\ UNCHANGED <<db, nextTxnId, input, result, faults, hadFault, startHad>>
  /\ Track(p)

\* 11. the buyer's credit transaction (debit)
PA_InsertBuyerTxn(p) ==
  /\ pc[p] = "pa_ins_buyer_txn"
  /\ tx' = [tx EXCEPT ![p].txns = @ \cup
             {BuyerTxnRow(nextTxnId, input[p].buyer_id, local[p].agentPrice,
                          local[p].purchase_id)}]
  /\ nextTxnId' = nextTxnId + 1
  /\ Goto(p, "pa_ins_creator_txn")
  /\ UNCHANGED <<db, nextPurchaseId, input, local, result, faults, hadFault, startHad>>
  /\ Track(p)

\* 12. the creator's credit transaction (credit)
PA_InsertCreatorTxn(p) ==
  /\ pc[p] = "pa_ins_creator_txn"
  /\ tx' = [tx EXCEPT ![p].txns = @ \cup
             {CreatorTxnRow(nextTxnId, local[p].agent.creator_id, local[p].agentPrice,
                            local[p].purchase_id)}]
  /\ nextTxnId' = nextTxnId + 1
  /\ Goto(p, "pa_commit")
  /\ UNCHANGED <<db, nextPurchaseId, input, local, result, faults, hadFault, startHad>>
  /\ Track(p)

\* the callback returns the purchase: db.transaction commits
PA_Commit(p) ==
  /\ pc[p] = "pa_commit"
  /\ Commit(p)
  /\ Finish(p, RecordResult(local[p].purchase_id))
  /\ UNCHANGED <<nextPurchaseId, nextTxnId, input, faults, hadFault, startHad>>
  /\ Track(p)

PA_Statements ==
  {"pa_agent", "pa_buyer", "pa_existing", "pa_creator", "pa_upd_buyer", "pa_upd_creator",
   "pa_upd_agent", "pa_ins_purchase", "pa_ins_buyer_txn", "pa_ins_creator_txn"}

\* a statement throws: db.transaction rolls back, the catch block rethrows
PA_Fault(p) ==
  /\ pc[p] \in PA_Statements
  /\ FaultHere(p)
  /\ Rollback(p)
  /\ Finish(p, ErrorResult)
  /\ UNCHANGED <<nextPurchaseId, nextTxnId, input, startHad>>
  /\ Track(p)

\* ------------------------------------------------------------- buyCredits
\* paymentMethod.trim() over the methods of the model
Trim(s) == IF s = " " THEN "" ELSE s

\* the mock payment processor
\* variant: the payment method is not trimmed before the test
processPayment_Untrimmed(amount, paymentMethod) ==
  IF amount <= 0 THEN FALSE
  ELSE IF paymentMethod = "" THEN FALSE
  ELSE TRUE
processPayment(amount, paymentMethod) ==
  IF amount <= 0 THEN FALSE
  ELSE IF Trim(paymentMethod) = "" THEN FALSE
  ELSE TRUE

\* throw new Error(`User with id ... not found`)
\* variant: an unknown user is answered with null
BC_UserNotFound_Null(p) == ReturnEarly(p, NullResult)
BC_UserNotFound(p) == ReturnEarly(p, ErrorResult)

\* the values buyCredits writes
\* variant: the credits bought are booked as earnings too
TopUpUpdate_AsEarned(row, newBalance) ==
  [row EXCEPT !.credit_balance = ToNumeric(newBalance),
              !.total_earned = ToNumeric(newBalance)]
TopUpUpdate(row, newBalance) == [row EXCEPT !.credit_balance = ToNumeric(newBalance)]
\* variant: the row is logged as a refund
TopUpTxnRow_Refund(id, user_id, amount) ==
  [id |-> id, user_id |-> user_id, transaction_type |-> "refund",
   amount |-> ToNumeric(parseFloat(amount)), reference_id |-> 0]
TopUpTxnRow(id, user_id, amount) ==
  [id |-> id, user_id |-> user_id, transaction_type |-> "purchase",
   amount |-> ToNumeric(parseFloat(amount)), reference_id |-> 0]

\* the user exists (read outside the transaction), then the payment
BC_SelectUser(p) ==
  /\ pc[p] = "bc_user"
  /\ IF input[p].user_id \notin DOMAIN users
     THEN BC_UserNotFound(p)
     ELSE IF ~processPayment(input[p].amount, input[p].payment_method)
     THEN ReturnEarly(p, NullResult)
     ELSE /\ Goto(p, "bc_tx_user")
          /\ UNCHANGED <<db, nextPurchaseId, nextTxnId, input, local, tx, result,
                         faults, hadFault, startHad>>
  /\ Track(p)

\* the balance is fetched again inside the transaction
BC_TxSelectUser(p) ==
  /\ pc[p] = "bc_tx_user"
  /\ IF input[p].user_id \notin DOMAIN users
     THEN BC_UserNotFound(p)
     ELSE /\ Continue(p, "bc_update",
                      [set |-> TRUE,
                       currentBalance |-> parseFloat(users[input[p].user_id].credit_balance)])
          /\ UNCHANGED <<db, nextPurchaseId, nextTxnId, input, tx, result, faults,
                         hadFault, startHad>>
  /\ Track(p)

\* UPDATE users SET credit_balance = newBalance WHERE id = user
\* (newBalance = parseFloat(currentUser.credit_balance) + input.amount)
BC_UpdateUser(p) ==
  /\ pc[p] = "bc_update"
  /\ ~UserLockedByOther(p, input[p].user_id)
  /\ \E newBalance \in FloatResults(local[p].currentBalance + parseFloat(input[p].amount)) :
       tx' = TxUpdateUser(p, input[p].user_id,
               TopUpUpdate(users[input[p].user_id], newBalance))
  /\ Goto(p, "bc_insert")
  /\ UNCHANGED <<db, nextPurchaseId, nextTxnId, input, local, result, faults,
                 hadFault, startHad>>
  /\ Track(p)

\* INSERT INTO credit_transactions ... RETURNING
BC_InsertTxn(p) ==
  /\ pc[p] = "bc_insert"
  /\ tx' = [tx EXCEPT ![p].txns = @ \cup
             {TopUpTxnRow(nextTxnId, input[p].user_id, input[p].amount)}]
  /\ nextTxnId' = nextTxnId + 1
  /\ Continue(p, "bc_commit", local[p] @@ [transaction_id |-> nextTxnId])
  /\ UNCHANGED <<db, nextPurchaseId, input, result, faults, hadFault, startHad>>
  /\ Track(p)

BC_Commit(p) ==
  /\ pc[p] = "bc_commit"
  /\ Commit(p)
  /\ Finish(p, RecordResult(local[p].transaction_id))
  /\ UNCHANGED <<nextPurchaseId, nextTxnId, input, faults, hadFault, startHad>>
  /\ Track(p)

BC_Statements == {"bc_user", "bc_tx_user", "bc_update", "bc_insert"}

\* a statement throws: the transaction (if open) rolls back, the catch block rethrows
BC_Fault(p) ==
  /\ pc[p] \in BC_Statements
  /\ FaultHere(p)
  /\ Rollback(p)
  /\ Finish(p, ErrorResult)
  /\ UNCHANGED <<nextPurchaseId, nextTxnId, input, startHad>>
  /\ Track(p)

\* -------------------------------------------------------- withdrawCredits
\* variant: the balance check is skipped
InsufficientBalance_Unchecked(currentBalance, amount) == FALSE
\* variant: the operands of the comparison are exchanged
InsufficientBalance_Swapped(currentBalance, amount) == amount < currentBalance
InsufficientBalance(currentBalance, amount) == currentBalance < amount

\* the values withdrawCredits writes
WithdrawalUpdate(row, newBalance) == [row EXCEPT !.credit_balance = ToNumeric(newBalance)]
\* variant: the withdrawal is logged with a negative amount
WithdrawalTxnRow_Negative(id, user_id, amount) ==
  [id |-> id, user_id |-> user_id, transaction_type |-> "withdrawal",
   amount |-> ToNumeric(0 - parseFloat(amount)), reference_id |-> 0]
WithdrawalTxnRow(id, user_id, amount) ==
  [id |-> id, user_id |-> user_id, transaction_type |-> "withdrawal",
   amount |-> ToNumeric(parseFloat(amount)), reference_id |-> 0]

\* the user exists and has sufficient balance
WD_SelectUser(p) ==
  /\ pc[p] = "wd_user"
  /\ IF input[p].user_id \notin DOMAIN users
     THEN ReturnEarly(p, NullResult)
     ELSE IF InsufficientBalance(parseFloat(users[input[p].user_id].credit_balance),
                                 parseFloat(input[p].amount))
     THEN ReturnEarly(p, NullResult)
     ELSE /\ Continue(p, "wd_update",
                      [set |-> TRUE,
                       currentBalance |-> parseFloat(users[input[p].user_id].credit_balance)])
          /\ UNCHANGED <<db, nextPurchaseId, nextTxnId, input, tx, result, faults,
                         hadFault, startHad>>
  /\ Track(p)

\* db.update(usersTable).set({credit_balance: newBalance}): committed on its own
\* (newBalance = currentBalance - input.amount)
WD_UpdateUser(p) ==
  /\ pc[p] = "wd_update"
  /\ ~UserLockedByOther(p, input[p].user_id)
  /\ \E newBalance \in FloatResults(local[p].currentBalance - parseFloat(input[p].amount)) :
       users' = [users EXCEPT ![input[p].user_id] = WithdrawalUpdate(@, newBalance)]
  /\ Goto(p, "wd_insert")
  /\ UNCHANGED <<agents, purchases, creditTransactions, nextPurchaseId, nextTxnId, input,
                 local, tx, result, faults, hadFault, startHad>>
  /\ Track(p)

\* db.insert(creditTransactionsTable): committed on its own; the record is returned
WD_InsertTxn(p) ==
  /\ pc[p] = "wd_insert"
  /\ creditTransactions' = creditTransactions \cup
       {WithdrawalTxnRow(nextTxnId, input[p].user_id, input[p].amount)}
  /\ nextTxnId' = nextTxnId + 1
  /\ Finish(p, RecordResult(nextTxnId))
  /\ UNCHANGED <<users, agents, purchases, nextPurchaseId, input, faults, hadFault,
                 startHad>>
  /\ Track(p)

WD_Statements == {"wd_user", "wd_update", "wd_insert"}

\* a statement throws: the catch block logs and returns null
WD_Fault(p) ==
  /\ pc[p] \in WD_Statements
  /\ FaultHere(p)
  /\ Finish(p, NullResult)
  /\ UNCHANGED <<db, nextPurchaseId, nextTxnId, input, startHad>>
  /\ Track(p)

\* ---------------------------------------------------------- updateAIAgent
\* updateData: only the fields present in the input are set
\* variant: the update starts the sales count again
UpdateData_ResetsSales(row, in) ==
  [row EXCEPT !.price = IF in.has_price THEN ToNumeric(parseFloat(in.price)) ELSE @,
              !.is_active = IF in.has_is_active THEN in.is_active ELSE @,
              !.total_sales = 0]
UpdateData(row, in) ==
  [row EXCEPT !.price = IF in.has_price THEN ToNumeric(parseFloat(in.price)) ELSE @,
              !.is_active = IF in.has_is_active THEN in.is_active ELSE @]

\* the agent exists
UA_SelectAgent(p) ==
  /\ pc[p] = "ua_agent"
  /\ IF input[p].id \notin DOMAIN agents
     THEN ReturnEarly(p, NullResult)
     ELSE /\ Goto(p, "ua_update")
          /\ UNCHANGED <<db, nextPurchaseId, nextTxnId, input, local, tx, result,
                         faults, hadFault, startHad>>
  /\ Track(p)

\* variant: the purchases of the agent follow its price
UA_UpdateAgent_Reprices(p) ==
  /\ pc[p] = "ua_update"
  /\ ~AgentLockedByOther(p, input[p].id)
  /\ agents' = [agents EXCEPT ![input[p].id] = UpdateData(@, input[p])]
  /\ purchases' = {[r EXCEPT !.price_paid = IF r.agent_id = input[p].id
                                            THEN agents'[input[p].id].price ELSE @] :
                     r \in purchases}
  /\ Finish(p, RecordResult(input[p].id))
  /\ UNCHANGED <<users, creditTransactions, nextPurchaseId, nextTxnId, input,
                 faults, hadFault, startHad>>
  /\ Track(p)
\* db.update(aiAgentsTable).set(updateData).where(id = input.id).returning():
\* committed on its own; it waits while a transaction holds the row
UA_UpdateAgent(p) ==
  /\ pc[p] = "ua_update"
  /\ ~AgentLockedByOther(p, input[p].id)
  /\ agents' = [agents EXCEPT ![input[p].id] = UpdateData(@, input[p])]
  /\ Finish(p, RecordResult(input[p].id))
  /\ UNCHANGED <<users, purchases, creditTransactions, nextPurchaseId, nextTxnId, input,
                 faults, hadFault, startHad>>
  /\ Track(p)

UA_Statements == {"ua_agent", "ua_update"}

\* a statement throws: the catch block logs and rethrows
UA_Fault(p) ==
  /\ pc[p] \in UA_Statements
  /\ FaultHere(p)
  /\ Finish(p, ErrorResult)
  /\ UNCHANGED <<db, nextPurchaseId, nextTxnId, input, startHad>>
  /\ Track(p)

\* ------------------------------------------------------- deadlock detection
\* the users row p's next UPDATE needs
WantedUsers(p) ==
  IF pc[p] = "pa_upd_buyer" THEN {input[p].buyer_id}
  ELSE IF pc[p] = "pa_upd_creator" THEN {local[p].agent.creator_id}
  ELSE IF pc[p] \in {"bc_update", "wd_update"} THEN {input[p].user_id}
  ELSE {}
WantedAgents(p) ==
  IF pc[p] = "pa_upd_agent" THEN {input[p].agent_id}
  ELSE IF pc[p] = "ua_update" THEN {input[p].id}
  ELSE {}

\* p's statement waits for a row lock q holds
WaitsFor(p, q) ==
  /\ p # q
  /\ \/ WantedUsers(p) \cap DOMAIN tx[q].users # {}
     \/ WantedAgents(p) \cap DOMAIN tx[q].agents # {}

\* variant: the store has no deadlock detection, the statements keep waiting
PA_Deadlock_Undetected(p) ==
  /\ FALSE
  /\ UNCHANGED vars
\* Two transactions wait for each other: PostgreSQL aborts one of them with
\* "deadlock detected"; the statement throws inside db.transaction.
PA_Deadlock(p) ==
  /\ pc[p] \in {"pa_upd_buyer", "pa_upd_creator", "pa_upd_agent"}
  /\ \E q \in Procs : WaitsFor(p, q) /\ WaitsFor(q, p)
  /\ hadFault' = [hadFault EXCEPT ![p] = TRUE]
  /\ Rollback(p)
  /\ Finish(p, ErrorResult)
  /\ UNCHANGED <<nextPurchaseId, nextTxnId, input, faults, startHad>>
  /\ Track(p)

\* ------------------------------------------------------------------- Next
\* a request arrives
Call(p) ==
  \/ CallPurchaseAgent(p)
  \/ CallBuyCredits(p)
  \/ CallWithdrawCredits(p)
  \/ CallUpdateAIAgent(p)

\* a running handler executes its next statement
Run(p) ==
  \/ PA_SelectAgent(p)
  \/ PA_SelectBuyer(p)
  \/ PA_SelectExisting(p)
  \/ PA_SelectCreator(p)
  \/ PA_UpdateBuyer(p)
  \/ PA_UpdateCreator(p)
  \/ PA_UpdateAgent(p)
  \/ PA_InsertPurchase(p)
  \/ PA_InsertBuyerTxn(p)
  \/ PA_InsertCreatorTxn(p)
  \/ PA_Commit(p)
  \/ PA_Fault(p)
  \/ BC_SelectUser(p)
  \/ BC_TxSelectUser(p)
  \/ BC_UpdateUser(p)
  \/ BC_InsertTxn(p)
  \/ BC_Commit(p)
  \/ BC_Fault(p)
  \/ WD_SelectUser(p)
  \/ WD_UpdateUser(p)
  \/ WD_InsertTxn(p)
  \/ WD_Fault(p)
  \/ UA_SelectAgent(p)
  \/ UA_UpdateAgent(p)
  \/ UA_Fault(p)

Next == \E p \in Procs : Call(p) \/ Run(p) \/ PA_Deadlock(p)

Spec == Init /\ [][Next]_vars

\* One request at a time: a handler is invoked only when no other is running
\* (the way the test suites call the handlers).
Alone(p) == \A q \in Procs \ {p} : pc[q] \in {"idle", "done"}

SeqCallPurchaseAgent(p) == Alone(p) /\ CallPurchaseAgent(p)
SeqCallBuyCredits(p) == Alone(p) /\ CallBuyCredits(p)
SeqCallWithdrawCredits(p) == Alone(p) /\ CallWithdrawCredits(p)
SeqCallUpdateAIAgent(p) == Alone(p) /\ CallUpdateAIAgent(p)

NextSeq ==
  \E p \in Procs :
    \/ SeqCallPurchaseAgent(p)
    \/ SeqCallBuyCredits(p)
    \/ SeqCallWithdrawCredits(p)
    \/ SeqCallUpdateAIAgent(p)
    \/ Run(p)

SpecSeq == Init /\ [][NextSeq]_vars

\* Overlapping purchases of the agents of one creator by different buyers.
\* (No two of these transactions can wait for each other: each locks its
\* buyer's row, then the creator's, then the agent's.)
RunSale(p) ==
  \/ PA_SelectAgent(p)
  \/ PA_SelectBuyer(p)
  \/ PA_SelectExisting(p)
  \/ PA_SelectCreator(p)
  \/ PA_UpdateBuyer(p)
  \/ PA_UpdateCreator(p)
  \/ PA_UpdateAgent(p)
  \/ PA_InsertPurchase(p)
  \/ PA_InsertBuyerTxn(p)
  \/ PA_InsertCreatorTxn(p)
  \/ PA_Commit(p)
  \/ PA_Fault(p)

NextSales == \E p \in Procs : CallSale(p) \/ RunSale(p)

SpecSales == Init /\ [][NextSales]_vars

\* Overlapping purchaseAgent calls, the handler whose transactions wait for
\* each other's row locks.
NextLive ==
  \E p \in Procs :
    \/ CallPurchaseAgent(p)
    \/ RunSale(p)
    \/ PA_Deadlock(p)

\* A statement that can be executed is executed (the store answers, the
\* awaiting handler resumes), and a deadlock is detected and broken: the
\* steps that do not depend on a fault being injected are weakly fair.
Proceed(p) == RunSale(p) /\ faults' = faults

SpecLive ==
  /\ Init /\ [][NextLive]_vars
  /\ \A p \in Procs : WF_vars(Proceed(p)) /\ WF_vars(PA_Deadlock(p))

\* ================================================================= claims
\* the step is taken by request p
StepOf(p) == pc'[p] # pc[p]
IsPurchase(p) == input[p].op = "purchaseAgent"
IsBuy(p) == input[p].op = "buyCredits"
IsWithdraw(p) == input[p].op = "withdrawCredits"
IsUpdate(p) == input[p].op = "updateAIAgent"
Returned(p, k) == pc[p] = "done" /\ result[p].kind = k
\* the step in which purchaseAgent commits and returns the Purchase
PurchaseSucceeds(p) == pc[p] = "pa_commit" /\ pc'[p] = "done" /\ result'[p].kind = "record"

\* C1: a purchaseAgent call that returns a Purchase, run on its own, lowers the
\* buyer's credit_balance by exactly the price, raises the creator's
\* credit_balance and total_earned by exactly the price and raises the agent's
\* total_sales by exactly 1 (state before the call against state after it).
C1_PurchaseEffects ==
  [][\A p \in Procs : PurchaseSucceeds(p) =>
       LET b == input[p].buyer_id
           a == input[p].agent_id
           c == agents[a].creator_id
           price == agents[a].price
       IN /\ users'[b].credit_balance = users[b].credit_balance - price
          /\ users'[c].credit_balance = users[c].credit_balance + price
          /\ users'[c].total_earned = users[c].total_earned + price
          /\ agents'[a].total_sales = agents[a].total_sales + 1]_vars

\* a purchase has succeeded: buyer 1 holds 70.01, creator 2 has earned 29.99
C1_Witness ==
  \E p \in Procs :
    /\ IsPurchase(p) /\ Returned(p, "record")
    /\ input[p].buyer_id = 1
    /\ users[1].credit_balance = 7001
    /\ users[2].total_earned = 2999
    /\ agents[1].total_sales = 1

\* C2: a purchaseAgent call that returns a Purchase inserts exactly one Purchase
\* row (buyer, agent, the agent's creator, price_paid = price) and exactly two
\* CreditTransaction rows, a "purchase" of -price for the buyer and a
\* "sale_earning" of +price for the creator, both referring to the new Purchase;
\* every other step of a purchaseAgent call inserts no row.
C2_PurchaseRows ==
  [][\A p \in Procs : (IsPurchase(p) /\ StepOf(p) /\ pc[p] # "idle") =>
       IF PurchaseSucceeds(p)
       THEN LET b == input[p].buyer_id
                a == input[p].agent_id
                price == local[p].agent.price
                newP == purchases' \ purchases
                newT == creditTransactions' \ creditTransactions
            IN /\ purchases \subseteq purchases'
               /\ creditTransactions \subseteq creditTransactions'
               /\ Cardinality(newP) = 1
               /\ \A r \in newP :
                    /\ r.id = result'[p].id
                    /\ r.buyer_id = b /\ r.agent_id = a
                    /\ r.creator_id = agents[a].creator_id
                    /\ r.price_paid = price
                    /\ Cardinality(newT) = 2
                    /\ \E t \in newT : /\ t.user_id = b
                                       /\ t.transaction_type = "purchase"
                                       /\ t.amount = 0 - price
                                       /\ t.reference_id = r.id
                    /\ \E t \in newT : /\ t.user_id = r.creator_id
                                       /\ t.transaction_type = "sale_earning"
                                       /\ t.amount = price
                                       /\ t.reference_id = r.id
       ELSE purchases' = purchases /\ creditTransactions' = creditTransactions]_vars

\* a purchase returned its row and a second purchaseAgent call returned null
C2_Witness ==
  \E p, q \in Procs :
    /\ IsPurchase(p) /\ Returned(p, "record")
    /\ \E r \in purchases : r.id = result[p].id
    /\ Cardinality({t \in creditTransactions : t.reference_id = result[p].id}) = 2
    /\ IsPurchase(q) /\ Returned(q, "null")

\* C3: no operation and no interleaving of purchaseAgent, buyCredits and
\* withdrawCredits makes a stored credit_balance negative.
C3_BalanceNonNegative ==
  \A u \in DOMAIN users : users[u].credit_balance >= 0

\* a withdrawal of the whole balance went through next to another request on
\* the same user
C3_Witness ==
  \E p, q \in Procs :
    /\ p # q
    /\ IsWithdraw(p) /\ Returned(p, "record") /\ input[p].amount = 10000
    /\ input[q].op \in {"purchaseAgent", "withdrawCredits"}
    /\ Returned(q, "record")
    /\ users[1].credit_balance = 0

\* C4: there is at most one Purchase row per (buyer_id, agent_id), also when two
\* purchaseAgent calls for the same buyer and agent run concurrently.
C4_OnePurchasePerPair ==
  \A r1, r2 \in purchases :
    (r1.buyer_id = r2.buyer_id /\ r1.agent_id = r2.agent_id) => r1 = r2

\* C5: a purchaseAgent call made when a Purchase of the same (buyer, agent) is
\* already committed changes no committed row and returns no Purchase: it
\* returns null (or ends with the error of a storage fault).
C5_DuplicateRejected ==
  \A p \in Procs : (IsPurchase(p) /\ startHad[p]) =>
    /\ ~wrote[p]
    /\ pc[p] \in {"pa_agent", "pa_buyer", "pa_existing", "done"}
    /\ pc[p] = "done" =>
         \/ result[p] = NullResult
         \/ hadFault[p] /\ result[p] = ErrorResult

\* the first call succeeded, the second returned null, one purchase is recorded
C5_Witness ==
  \E p, q \in Procs :
    /\ IsPurchase(p) /\ Returned(p, "record")
    /\ IsPurchase(q) /\ startHad[q] /\ Returned(q, "null")
    /\ input[q] = input[p]
    /\ Cardinality(purchases) = 1 /\ Cardinality(creditTransactions) = 2
    /\ users[1].credit_balance = 7001

\* the requests that have been invoked
Invoked == {p \in Procs : pc[p] # "idle"}

\* C6: two buyCredits calls of amounts A and B for the same existing user, run
\* concurrently, both return a transaction record, leave the balance at
\* initial + A + B and leave two distinct rows of amounts A and B.
C6_ConcurrentTopUps ==
  \A p, q \in Procs :
    LET u == input[p].user_id IN
    ( /\ p # q /\ Invoked = {p, q}
      /\ IsBuy(p) /\ IsBuy(q) /\ input[q].user_id = u /\ u \in DOMAIN users
      /\ processPayment(input[p].amount, input[p].payment_method)
      /\ processPayment(input[q].amount, input[q].payment_method)
      /\ pc[p] = "done" /\ pc[q] = "done" /\ ~hadFault[p] /\ ~hadFault[q] )
    => /\ result[p].kind = "record" /\ result[q].kind = "record"
       /\ result[p].id # result[q].id
       /\ \E t \in creditTransactions : t.id = result[p].id /\ t.amount = input[p].amount
       /\ \E t \in creditTransactions : t.id = result[q].id /\ t.amount = input[q].amount
       /\ users[u].credit_balance =
            InitUsers[u].credit_balance + input[p].amount + input[q].amount

\* the statements of purchaseAgent that write
PA_Writes ==
  {"pa_upd_buyer", "pa_upd_creator", "pa_upd_agent", "pa_ins_purchase",
   "pa_ins_buyer_txn", "pa_ins_creator_txn"}

\* C7: a storage fault at a write statement of purchaseAgent ends the call with
\* an error (not null) and no step of the call has changed or changes the
\* committed users, agents, purchases or credit transactions.
C7_FaultRollsBack ==
  [][\A p \in Procs :
       (IsPurchase(p) /\ pc[p] \in PA_Writes /\ hadFault'[p]) =>
          /\ pc'[p] = "done"
          /\ result'[p] = ErrorResult
          /\ ~wrote'[p]
          /\ db' = db]_vars

\* the fault came after the purchase insert: its id is used up, no row exists
C7_Witness ==
  \E p \in Procs :
    /\ IsPurchase(p) /\ pc[p] = "done" /\ hadFault[p] /\ result[p] = ErrorResult
    /\ nextPurchaseId > 1 /\ nextTxnId > 1
    /\ purchases = {} /\ creditTransactions = {}
    /\ users = InitUsers /\ agents = InitAgents

\* C8: every change of a committed credit_balance appears in the same step as
\* exactly one new CreditTransaction row of that user, and every new row of a
\* user appears in the same step as a change of that user's balance.
C8_BalanceChangeHasRow ==
  [][\A u \in DOMAIN users :
       LET newRows == {t \in creditTransactions' \ creditTransactions : t.user_id = u} IN
       /\ users'[u].credit_balance # users[u].credit_balance => Cardinality(newRows) = 1
       /\ newRows # {} => users'[u].credit_balance # users[u].credit_balance]_vars

\* C9: a storage fault in withdrawCredits is reported as an error, not as the
\* null of "unknown user" / "insufficient balance", and the call has changed
\* neither the balance nor the transaction log.
C9_WithdrawFaultIsError ==
  \A p \in Procs : (IsWithdraw(p) /\ pc[p] = "done" /\ hadFault[p]) =>
    /\ result[p] = ErrorResult
    /\ ~wrote[p]

\* the agent p asks for exists and belongs to the buyer
OwnAgent(p) ==
  /\ IsPurchase(p)
  /\ input[p].agent_id \in DOMAIN agents
  /\ agents[input[p].agent_id].creator_id = input[p].buyer_id

\* C10: a purchaseAgent call of a buyer for an agent of his own never reaches a
\* write, changes nothing and returns null (or the error of a storage fault),
\* whatever his balance; no Purchase row, committed or pending, has
\* buyer_id = creator_id.
C10_NoSelfPurchase ==
  /\ \A p \in Procs : OwnAgent(p) =>
       /\ pc[p] \in {"pa_agent", "pa_buyer", "done"}
       /\ tx[p] = EmptyTx
       /\ ~wrote[p]
       /\ pc[p] = "done" =>
            \/ result[p] = NullResult
            \/ hadFault[p] /\ result[p] = ErrorResult
  /\ \A p \in Procs : \A r \in purchases \cup tx[p].purchases : r.buyer_id # r.creator_id

\* user 1, holding at least the price, asked for his own agent 2 and got null,
\* while a purchase by another buyer exists
C10_Witness ==
  \E p \in Procs :
    /\ OwnAgent(p) /\ Returned(p, "null") /\ input[p].buyer_id = 1
    /\ users[1].credit_balance >= agents[2].price
    /\ purchases # {}

\* a step of the running request p (not its invocation)
HandlerStep(p) == pc[p] \notin {"idle", "done"} /\ StepOf(p)
\* the call ended with null, or with the error of a storage fault
NullOrFault(p) ==
  \/ result'[p] = NullResult
  \/ hadFault'[p] /\ result'[p] = ErrorResult
\* the step of p leaves every row and both serials as they are
NothingWritten(p) ==
  /\ db' = db
  /\ tx'[p] = EmptyTx
  /\ ~wrote'[p]
  /\ nextPurchaseId' = nextPurchaseId /\ nextTxnId' = nextTxnId

\* the buyer and the agent exist and the buyer holds less than the price
BuyerIsShort(p) ==
  /\ IsPurchase(p)
  /\ input[p].buyer_id \in DOMAIN users
  /\ input[p].agent_id \in DOMAIN agents
  /\ users[input[p].buyer_id].credit_balance < agents[input[p].agent_id].price

\* C11: a purchaseAgent call made while the buyer's credit_balance is strictly
\* below the agent's price returns null; no step of it changes the buyer's or
\* the creator's balance, the creator's total_earned or the agent's
\* total_sales, and no Purchase or CreditTransaction row is added.
C11_ShortBuyerNoEffect ==
  [][\A p \in Procs : (BuyerIsShort(p) /\ HandlerStep(p)) =>
       /\ NothingWritten(p)
       /\ pc'[p] = "done" => NullOrFault(p)]_vars

\* user 1 has withdrawn all 100.00 and then asked for agent 1 of user 2: null
C11_Witness ==
  \E p \in Procs :
    /\ BuyerIsShort(p) /\ Returned(p, "null") /\ ~hadFault[p] /\ ~startHad[p]
    /\ agents[input[p].agent_id].is_active
    /\ agents[input[p].agent_id].creator_id # input[p].buyer_id
    /\ users[input[p].buyer_id].credit_balance = 0
    /\ purchases = {}

\* every precondition of the purchase holds and the buyer holds exactly the price
BuyerHoldsExactly(p) ==
  /\ IsPurchase(p)
  /\ input[p].buyer_id \in DOMAIN users
  /\ input[p].agent_id \in DOMAIN agents
  /\ agents[input[p].agent_id].is_active
  /\ agents[input[p].agent_id].creator_id \in DOMAIN users \ {input[p].buyer_id}
  /\ \A r \in purchases :
       ~(r.buyer_id = input[p].buyer_id /\ r.agent_id = input[p].agent_id)
  /\ users[input[p].buyer_id].credit_balance = agents[input[p].agent_id].price

\* C12: a purchaseAgent call made while the buyer's credit_balance equals the
\* price and every other precondition holds returns the Purchase (unless a
\* statement failed) and leaves the buyer's balance at exactly 0.
C12_ExactBalancePurchase ==
  [][\A p \in Procs : (BuyerHoldsExactly(p) /\ HandlerStep(p) /\ pc'[p] = "done") =>
       \/ /\ result'[p].kind = "record"
          /\ users'[input[p].buyer_id].credit_balance = 0
       \/ hadFault'[p] /\ result'[p] = ErrorResult]_vars

\* user 2, holding 29.99, bought agent 2 priced 29.99 and holds 0.00
C12_Witness ==
  \E p \in Procs :
    /\ IsPurchase(p) /\ Returned(p, "record")
    /\ input[p].buyer_id = 2 /\ input[p].agent_id = 2
    /\ users[2].credit_balance = 0
    /\ users[1].total_earned = 2999
    /\ \E r \in purchases : r.id = result[p].id /\ r.price_paid = InitUsers[2].credit_balance

\* the agent asked for has no row or is inactive
BadAgent(p) ==
  \/ input[p].agent_id \notin DOMAIN agents
  \/ input[p].agent_id \in DOMAIN agents /\ ~agents[input[p].agent_id].is_active
\* the agent is missing or inactive when the call selects it, or the buyer is
\* missing
BadPurchaseTarget(p) ==
  /\ IsPurchase(p)
  /\ \/ pc[p] = "pa_agent" /\ BadAgent(p)
     \/ input[p].buyer_id \notin DOMAIN users

\* C13: a purchaseAgent call for an agent id that has no row, for an agent whose
\* is_active is false (when the call selects it), or by a buyer id that has no
\* row returns null (an error only when a statement failed) and no step of it
\* changes a balance, a total_sales, the purchases or the credit transactions.
C13_BadTargetReturnsNull ==
  [][\A p \in Procs : (BadPurchaseTarget(p) /\ HandlerStep(p)) =>
       /\ NothingWritten(p)
       /\ pc'[p] \in {"pa_buyer", "done"}
       /\ (pc[p] = "pa_agent" /\ BadAgent(p)) => pc'[p] = "done"
       /\ pc'[p] = "done" => NullOrFault(p)]_vars

\* buyer 1, holding the price, asked for the deactivated agent 4 and got null;
\* another call named a missing agent or a missing buyer and got null
C13_Witness ==
  \E p, q \in Procs :
    /\ IsPurchase(p) /\ Returned(p, "null") /\ ~hadFault[p]
    /\ input[p].buyer_id \in DOMAIN users /\ input[p].agent_id \in DOMAIN agents
    /\ ~agents[input[p].agent_id].is_active
    /\ users[input[p].buyer_id].credit_balance >= agents[input[p].agent_id].price
    /\ IsPurchase(q) /\ Returned(q, "null") /\ ~hadFault[q]
    /\ \/ input[q].agent_id \notin DOMAIN agents
       \/ input[q].buyer_id \notin DOMAIN users
    /\ db = <<InitUsers, InitAgents, {}, {}>>

\* C14: a buyCredits call for a user id that has no row ends with an error, not
\* with null; no step of it changes a balance or inserts a CreditTransaction.
C14_UnknownUserIsError ==
  [][\A p \in Procs :
       (IsBuy(p) /\ input[p].user_id \notin DOMAIN users /\ HandlerStep(p)) =>
          /\ NothingWritten(p)
          /\ pc'[p] = "done"
          /\ result'[p] = ErrorResult]_vars

\* buyCredits for user 3 threw although no statement failed
C14_Witness ==
  \E p \in Procs :
    /\ IsBuy(p) /\ input[p].user_id \notin DOMAIN users
    /\ input[p].amount > 0 /\ input[p].payment_method = "credit_card"
    /\ Returned(p, "error") /\ ~hadFault[p]
    /\ creditTransactions = {} /\ users = InitUsers

\* the user exists and the payment cannot be authorized
PaymentRefused(p) ==
  /\ IsBuy(p)
  /\ input[p].user_id \in DOMAIN users
  /\ \/ input[p].amount <= 0
     \/ input[p].payment_method \in {"", " "}

\* C15: a buyCredits call whose payment is not authorized (amount <= 0, or an
\* empty or whitespace-only payment_method) returns null (an error only when
\* the user lookup failed) and changes neither the balance nor the log.
C15_RefusedPaymentReturnsNull ==
  [][\A p \in Procs : (PaymentRefused(p) /\ HandlerStep(p)) =>
       /\ NothingWritten(p)
       /\ pc'[p] = "done"
       /\ NullOrFault(p)]_vars

\* a call with a whitespace-only method and a call with amount 0 both got null
C15_Witness ==
  \E p, q \in Procs :
    /\ PaymentRefused(p) /\ input[p].payment_method = " " /\ input[p].amount > 0
    /\ Returned(p, "null") /\ ~hadFault[p]
    /\ PaymentRefused(q) /\ input[q].amount = 0
    /\ Returned(q, "null") /\ ~hadFault[q]
    /\ creditTransactions = {} /\ users = InitUsers

\* what the call of p, if it returned a record, adds to the balance of user u
Effect(p, u) ==
  IF ~Returned(p, "record") THEN 0
  ELSE IF IsBuy(p) THEN (IF input[p].user_id = u THEN input[p].amount ELSE 0)
  ELSE IF IsWithdraw(p) THEN (IF input[p].user_id = u THEN 0 - input[p].amount ELSE 0)
  ELSE IF IsPurchase(p) THEN
       LET r == CHOOSE x \in purchases : x.id = result[p].id IN
       (IF r.buyer_id = u THEN 0 - r.price_paid ELSE 0)
       + (IF r.creator_id = u THEN r.price_paid ELSE 0)
  ELSE 0
RECURSIVE SumEffects(_, _)
SumEffects(S, u) ==
  IF S = {} THEN 0
  ELSE LET p == CHOOSE x \in S : TRUE IN Effect(p, u) + SumEffects(S \ {p}, u)

\* the user exists, the amount is positive and the payment is authorized
TopUpAccepted(p) ==
  /\ IsBuy(p)
  /\ input[p].user_id \in DOMAIN users
  /\ input[p].amount > 0
  /\ input[p].payment_method \notin {"", " "}
\* the step in which buyCredits commits and returns the transaction
TopUpSucceeds(p) == pc[p] = "bc_commit" /\ pc'[p] = "done" /\ result'[p].kind = "record"

\* C16: a buyCredits call for an existing user with amount > 0 and an
\* authorized payment, run on its own, returns a record (unless a statement
\* failed), raises the user's credit_balance by exactly amount and inserts
\* exactly one CreditTransaction (type purchase, amount = +amount, reference_id
\* null), which is the record returned; after any sequence of such calls each
\* balance is its initial value plus the sum of the amounts.
C16_TopUpEffects ==
  /\ [][\A p \in Procs :
          /\ (TopUpAccepted(p) /\ HandlerStep(p) /\ pc'[p] = "done") =>
               \/ TopUpSucceeds(p)
               \/ hadFault'[p] /\ result'[p] = ErrorResult
          /\ TopUpSucceeds(p) =>
               LET u == input[p].user_id IN
               /\ TopUpAccepted(p)
               /\ users'[u].credit_balance = users[u].credit_balance + input[p].amount
               /\ creditTransactions' \ creditTransactions =
                    {[id |-> result'[p].id, user_id |-> u,
                      transaction_type |-> "purchase",
                      amount |-> input[p].amount, reference_id |-> 0]}
               /\ creditTransactions \subseteq creditTransactions'
               /\ \A t \in creditTransactions : t.id # result'[p].id]_vars
  /\ [](  (\A p \in Invoked : IsBuy(p))
          => \A u \in DOMAIN users :
               users[u].credit_balance =
                 InitUsers[u].credit_balance + SumEffects(Invoked, u))

\* two calls, of 25.00 and of 75.00, have returned their records: 200.00
C16_Witness ==
  \E p, q \in Procs :
    /\ p # q /\ IsBuy(p) /\ IsBuy(q)
    /\ Returned(p, "record") /\ Returned(q, "record")
    /\ input[p].amount = 2500 /\ input[q].amount = 7500
    /\ users[1].credit_balance = 20000
    /\ Cardinality(creditTransactions) = 2

\* C17: no step of a buyCredits call, the committing one included, changes the
\* user's total_earned or user_type, another user's row, an agent's row
\* (total_sales) or the purchases table.
C17_TopUpFrame ==
  [][\A p \in Procs : (IsBuy(p) /\ HandlerStep(p)) =>
       /\ \A u \in DOMAIN users :
            /\ users'[u].total_earned = users[u].total_earned
            /\ users'[u].user_type = users[u].user_type
            /\ u # input[p].user_id => users'[u] = users[u]
       /\ DOMAIN users' = DOMAIN users
       /\ agents' = agents
       /\ purchases' = purchases]_vars

\* user 1 has earned 29.99 from a sale and then bought credits: the earnings,
\* the sale and the other user's row are as the purchase left them
C17_Witness ==
  \E p \in Procs :
    /\ IsBuy(p) /\ Returned(p, "record") /\ input[p].user_id = 1
    /\ users[1].total_earned = 2999 /\ users[1].user_type = "buyer"
    /\ users[1].credit_balance = 10000 + 2999 + input[p].amount
    /\ users[2].credit_balance = 0
    /\ agents[2].total_sales = 1 /\ Cardinality(purchases) = 1

\* the user exists and holds at least the positive amount asked for
CanWithdraw(p) ==
  /\ IsWithdraw(p)
  /\ input[p].user_id \in DOMAIN users
  /\ 0 < input[p].amount
  /\ input[p].amount <= users[input[p].user_id].credit_balance

C19_WithdrawalRefused ==
  [][\A p \in Procs :
       ( /\ IsWithdraw(p) /\ pc[p] = "wd_user" /\ StepOf(p)
         /\ \/ input[p].user_id \notin DOMAIN users
            \/ input[p].user_id \in DOMAIN users
               /\ input[p].amount > users[input[p].user_id].credit_balance )
       => /\ pc'[p] = "done"
          /\ result'[p] = NullResult
          /\ NothingWritten(p)]_vars

\* after a withdrawal of 29.99 user 1 holds 70.01; asking for 100.00 gave null
C19_Witness ==
  \E p, q \in Procs :
    /\ IsWithdraw(q) /\ Returned(q, "record") /\ input[q].amount = 2999
    /\ IsWithdraw(p) /\ Returned(p, "null") /\ ~hadFault[p] /\ input[p].amount = 10000
    /\ input[p].user_id = 1
    /\ users[1].credit_balance = 7001
    /\ Cardinality(creditTransactions) = 1

\* C20: when the requests invoked so far, overlapping in any way, have all
\* ended and none met a storage fault, every user's credit_balance is its
\* initial value plus the signed effects of exactly the calls that returned a
\* record (no update is lost).
C20_NoLostUpdate ==
  (\A p \in Invoked : pc[p] = "done" /\ ~hadFault[p])
  => \A u \in DOMAIN users :
       users[u].credit_balance = InitUsers[u].credit_balance + SumEffects(Invoked, u)

\* price_paid of the Purchase the call of p returned
PricePaid(p) == (CHOOSE x \in purchases : x.id = result[p].id).price_paid

\* C21: when the only two requests are purchases of the same agent by two
\* different buyers, overlapping in any way, and both have returned a
\* Purchase, the agent's total_sales is 2 above its initial value and the
\* creator's credit_balance and total_earned are above theirs by the sum of
\* the two price_paid values.
C21_ConcurrentSales ==
  \A p, q \in Procs :
    ( /\ p # q /\ Invoked = {p, q}
      /\ IsPurchase(p) /\ IsPurchase(q)
      /\ input[p].agent_id = input[q].agent_id
      /\ input[p].buyer_id # input[q].buyer_id
      /\ Returned(p, "record") /\ Returned(q, "record") )
    => LET a == input[p].agent_id
           c == agents[a].creator_id
           paid == PricePaid(p) + PricePaid(q)
       IN /\ agents[a].total_sales = InitAgents[a].total_sales + 2
          /\ users[c].credit_balance = InitUsers[c].credit_balance + paid
          /\ users[c].total_earned = InitUsers[c].total_earned + paid

\* the step in which updateAIAgent writes the agent's row
AgentUpdated(p) == IsUpdate(p) /\ pc[p] = "ua_update" /\ pc'[p] = "done" /\ agents' # agents

\* C22: no step of an updateAIAgent call, whether it changes the price or
\* deactivates the agent, changes a Purchase row or a CreditTransaction row:
\* every Purchase keeps its price_paid and the rows that reference it keep
\* their amounts.
C22_PricePaidFrozen ==
  [][\A p \in Procs : (IsUpdate(p) /\ HandlerStep(p)) =>
       /\ purchases' = purchases
       /\ creditTransactions' = creditTransactions
       /\ \A r \in purchases' :
            \E b, c \in creditTransactions' :
              /\ b.reference_id = r.id /\ b.user_id = r.buyer_id
              /\ b.amount = 0 - r.price_paid
              /\ c.reference_id = r.id /\ c.user_id = r.creator_id
              /\ c.amount = r.price_paid]_vars

\* agent 1 was sold at 29.99 and then repriced to 19.99: the Purchase and its
\* two transactions still say 29.99
C22_Witness ==
  \E p, q \in Procs :
    /\ IsPurchase(p) /\ Returned(p, "record") /\ input[p].agent_id = 1
    /\ IsUpdate(q) /\ Returned(q, "record") /\ input[q].has_price
    /\ agents[1].price = 1999
    /\ \E r \in purchases : r.id = result[p].id /\ r.agent_id = 1 /\ r.price_paid = 2999
    /\ \E t \in creditTransactions : t.reference_id = result[p].id /\ t.amount = 2999
    /\ \E t \in creditTransactions : t.reference_id = result[p].id /\ t.amount = 0 - 2999

\* C23: an agent's total_sales changes only in the step in which a
\* purchaseAgent call for that agent commits and returns its Purchase; no step
\* of buyCredits, withdrawCredits or updateAIAgent and no purchaseAgent call
\* that returns null or fails changes it.
C23_SalesOnlyByPurchase ==
  [][\A a \in DOMAIN agents :
       agents'[a].total_sales # agents[a].total_sales =>
         \E p \in Procs : PurchaseSucceeds(p) /\ input[p].agent_id = a]_vars

\* agent 1 has been sold once and then deactivated by updateAIAgent: its
\* total_sales is still 1
C23_Witness ==
  \E p, q \in Procs :
    /\ IsPurchase(p) /\ Returned(p, "record") /\ input[p].agent_id = 1
    /\ IsUpdate(q) /\ Returned(q, "record") /\ input[q].id = 1
    /\ ~agents[1].is_active
    /\ agents[1].total_sales = 1

\* C24: a Purchase or CreditTransaction row, once committed, is present with
\* the same field values after every step of every call, and no later row
\* takes its id.
C24_AppendOnly ==
  [][/\ purchases \subseteq purchases'
     /\ creditTransactions \subseteq creditTransactions'
     /\ \A r \in purchases' \ purchases : \A x \in purchases : x.id # r.id
     /\ \A t \in creditTransactions' \ creditTransactions :
          \A x \in creditTransactions : x.id # t.id]_vars

\* the rows of a first purchase are still there after a second one committed
C24_Witness ==
  \E p, q \in Procs :
    /\ p # q /\ IsPurchase(p) /\ IsPurchase(q)
    /\ Returned(p, "record") /\ Returned(q, "record") /\ result[p].id < result[q].id
    /\ \E r \in purchases : r.id = result[p].id /\ r.buyer_id = input[p].buyer_id
    /\ Cardinality({t \in creditTransactions : t.reference_id = result[p].id}) = 2
    /\ Cardinality(purchases) = 2 /\ Cardinality(creditTransactions) = 4

\* C25: no step lowers a user's committed total_earned, whatever the
\* interleaving of the calls (two overlapping sales of one creator included).
C25_TotalEarnedMonotone ==
  [][\A u \in DOMAIN users : users'[u].total_earned >= users[u].total_earned]_vars

\* the exact number of cents of a JS number that stands for whole cents
Cents(f) == f \div FloatUnit

\* C26: every balance a handler stores is the exact decimal sum or difference
\* of the balance it read and the price or amount (whole cents), and every
\* amount and price_paid it stores is exactly the price or amount: the
\* floating-point error of the computation never reaches the stored value.
C26_ExactCents ==
  [][\A p \in Procs : StepOf(p) =>
       /\ (pc[p] = "pa_upd_buyer" /\ pc'[p] = "pa_upd_creator") =>
            tx'[p].users[input[p].buyer_id].credit_balance =
              Cents(local[p].buyerBalance) - Cents(local[p].agentPrice)
       /\ (pc[p] = "pa_upd_creator" /\ pc'[p] = "pa_upd_agent") =>
            LET row == tx'[p].users[local[p].agent.creator_id] IN
            /\ row.credit_balance =
                 Cents(local[p].creatorBalance) + Cents(local[p].agentPrice)
            /\ row.total_earned =
                 Cents(local[p].creatorTotalEarned) + Cents(local[p].agentPrice)
       /\ (pc[p] = "pa_ins_purchase" /\ pc'[p] = "pa_ins_buyer_txn") =>
            \A r \in tx'[p].purchases : r.price_paid = local[p].agent.price
       /\ (pc[p] = "pa_ins_creator_txn" /\ pc'[p] = "pa_commit") =>
            \A t \in tx'[p].txns :
              t.amount \in {local[p].agent.price, 0 - local[p].agent.price}
       /\ (pc[p] = "bc_update" /\ pc'[p] = "bc_insert") =>
            tx'[p].users[input[p].user_id].credit_balance =
              Cents(local[p].currentBalance) + input[p].amount
       /\ (pc[p] = "bc_insert" /\ pc'[p] = "bc_commit") =>
            \A t \in tx'[p].txns : t.amount = input[p].amount
       /\ (pc[p] = "wd_update" /\ pc'[p] = "wd_insert") =>
            users'[input[p].user_id].credit_balance =
              Cents(local[p].currentBalance) - input[p].amount
       /\ (pc[p] = "wd_insert" /\ pc'[p] = "done" /\ result'[p].kind = "record") =>
            \A t \in creditTransactions' \ creditTransactions :
              t.amount = input[p].amount]_vars

\* 100.00 - 29.99 is stored as 70.01 with a withdrawal row of 29.99, and
\* 29.99 + 29.99 as 59.98 with rows of -29.99 and +29.99
C26_Witness ==
  \E p, q \in Procs :
    /\ IsWithdraw(p) /\ Returned(p, "record") /\ input[p].amount = 2999
    /\ IsPurchase(q) /\ Returned(q, "record") /\ input[q].agent_id = 1
    /\ users[1].credit_balance = 10000 - 2999 - 2999
    /\ users[2].credit_balance = 5998 /\ users[2].total_earned = 2999
    /\ \E t \in creditTransactions : t.id = result[p].id /\ t.amount = 2999
    /\ \E t \in creditTransactions : t.reference_id = result[q].id /\ t.amount = 0 - 2999

\* the sum of credit_balance over the rows us, and of amount over the rows ts
RECURSIVE SumBalances(_, _)
SumBalances(us, S) ==
  IF S = {} THEN 0
  ELSE LET u == CHOOSE x \in S : TRUE IN us[u].credit_balance + SumBalances(us, S \ {u})
TotalCredits(us) == SumBalances(us, DOMAIN us)
RECURSIVE SumAmounts(_)
SumAmounts(ts) ==
  IF ts = {} THEN 0
  ELSE LET t == CHOOSE x \in ts : TRUE IN t.amount + SumAmounts(ts \ {t})

\* C27: no step of a purchaseAgent call, the committing one included, changes
\* the sum of credit_balance over all users.
C27_PurchaseConservesCredits ==
  [][\A p \in Procs : (IsPurchase(p) /\ HandlerStep(p)) =>
       TotalCredits(users') = TotalCredits(users)]_vars

\* the Purchase rows of agent a
PurchasesOf(a) == {r \in purchases : r.agent_id = a}

\* C28: in every state every agent's total_sales is its initial total_sales
\* plus the number of Purchase rows of that agent.
C28_SalesCountPurchases ==
  \A a \in DOMAIN agents :
    agents[a].total_sales = InitAgents[a].total_sales + Cardinality(PurchasesOf(a))

\* the CreditTransaction rows of user u of the given types
RowsOf(u, types) ==
  {t \in creditTransactions : t.user_id = u /\ t.transaction_type \in types}

\* C29: in every state every user's credit_balance is the initial balance plus
\* the amounts (as stored) of the user's purchase and sale_earning rows minus
\* the amounts of the user's withdrawal rows.
C29_LogReconstructsBalance ==
  \A u \in DOMAIN users :
    users[u].credit_balance =
      InitUsers[u].credit_balance
      + SumAmounts(RowsOf(u, {"purchase", "sale_earning"}))
      - SumAmounts(RowsOf(u, {"withdrawal"}))

\* C30: every purchaseAgent call that has been invoked ends (with a Purchase,
\* with null or with an error), also when it has to wait for rows another
\* call has updated and when two calls wait for each other; a call that ends
\* with an error has changed no committed row, so the state is that of the
\* transactions that committed.
C30_PurchaseTerminates ==
  /\ \A p \in Procs : (pc[p] \in PA_Statements \cup {"pa_commit"}) ~> (pc[p] = "done")
  /\ [](\A p \in Procs : (IsPurchase(p) /\ Returned(p, "error")) => ~wrote[p])

\* user 1 bought the agent of user 2 while user 2 bought the agent of user 1:
\* one call was aborted by the deadlock detection (no fault was injected),
\* the other returned its Purchase, the only one in the store
C30_Witness ==
  \E p, q \in Procs :
    /\ IsPurchase(p) /\ IsPurchase(q)
    /\ input[p].agent_id \in DOMAIN agents /\ input[q].agent_id \in DOMAIN agents
    /\ agents[input[p].agent_id].creator_id = input[q].buyer_id
    /\ agents[input[q].agent_id].creator_id = input[p].buyer_id
    /\ Returned(p, "error") /\ hadFault[p] /\ faults = 0
    /\ Returned(q, "record")
    /\ Cardinality(purchases) = 1 /\ Cardinality(creditTransactions) = 2

====
